---- MODULE Spec2Model ----
(***************************************************************************)
(* Normalization and deduplication core of the WONE race registry          *)
(* (scrapers/normalizer.py), with the callers in                           *)
(* scrapers/race_registry_scraper.py: its inlined normalize_events,        *)
(* fetch_direct, which attaches the fallback 'year' field, and             *)
(* scrape_playwright with its on_response tasks and within-site dedup.     *)
(*                                                                         *)
(* Python values are tagged records; a Python str is a sequence of         *)
(* one-character strings, so that strip(), lower(), replace() and slicing  *)
(* are computed character by character.                                    *)
(***************************************************************************)
EXTENDS Integers, Sequences, FiniteSets, TLC

VARIABLES
    pc,          \* which call has returned: "idle", "normalized", "fetched", "deduped",
                 \* "scraped"; or where scrape_playwright is: "pw_loading", "pw_dom",
                 \* "pw_close"
    raw,         \* normalize_events: the payload passed
    source,      \* normalize_events / fetch_direct: the source label
    source_url,  \* normalize_events: the URL passed
    result,      \* normalize_events: the list returned
    responses,   \* fetch_direct: the HTTP response received for each year
    all_events,  \* fetch_direct: the list returned
    events,      \* dedup_events: the list passed
    unique,      \* dedup_events: first list returned (positions in events)
    duplicates,  \* dedup_events: second list returned (positions in events)
    records,     \* dedup_events: the records of the list passed, after the call
    event_buffer,    \* scrape_playwright: the captured API responses
    reading,         \* scrape_playwright: on_response tasks awaiting response.json()
    response_count   \* scrape_playwright: responses the page has received so far

vars == <<pc, raw, source, source_url, result, responses, all_events,
          events, unique, duplicates, records, event_buffer, reading, response_count>>

(***************************************************************************)
(* Python values                                                           *)
(***************************************************************************)
EmptyDict == [k \in {} |-> 0]

NoneV == [t |-> "none", s |-> <<>>, n |-> 0, l |-> <<>>, d |-> EmptyDict]

StrV(chars) == [t |-> "str", s |-> chars, n |-> 0, l |-> <<>>, d |-> EmptyDict]

IntV(i) == [t |-> "int", s |-> <<>>, n |-> i, l |-> <<>>, d |-> EmptyDict]

ListV(xs) == [t |-> "list", s |-> <<>>, n |-> 0, l |-> xs, d |-> EmptyDict]

DictV(f) == [t |-> "dict", s |-> <<>>, n |-> 0, l |-> <<>>, d |-> f]

\* isinstance(v, list) / isinstance(v, dict)
IsList(v) == v.t = "list"

IsDict(v) == v.t = "dict"

\* Python truth value of v (bool(v), `if v`, `a and b`)
Truthy(v) ==
    CASE v.t = "none" -> FALSE
      [] v.t = "str"  -> Len(v.s) > 0
      [] v.t = "int"  -> v.n # 0
      [] v.t = "list" -> Len(v.l) > 0
      [] v.t = "dict" -> DOMAIN v.d # {}

\* d.get(k): the value under k, None when the key is absent
Get(d, k) == IF k \in DOMAIN d THEN d[k] ELSE NoneV

\* d.get(k, default)
GetOr(d, k, default) == IF k \in DOMAIN d THEN d[k] ELSE default

(***************************************************************************)
(* Python str operations                                                   *)
(***************************************************************************)
Digits == <<"0", "1", "2", "3", "4", "5", "6", "7", "8", "9">>

UpperLetters == <<"A", "B", "C", "D", "E", "F", "G", "H", "I", "J", "K", "L", "M",
                  "N", "O", "P", "Q", "R", "S", "T", "U", "V", "W", "X", "Y", "Z">>

LowerLetters == <<"a", "b", "c", "d", "e", "f", "g", "h", "i", "j", "k", "l", "m",
                  "n", "o", "p", "q", "r", "s", "t", "u", "v", "w", "x", "y", "z">>

Whitespace == {" ", "\t", "\n", "\r"}

IsDigit(c) == \E i \in DOMAIN Digits : Digits[i] = c

\* str(i) for a non-negative int: its decimal digits
RECURSIVE DecimalStr(_)
DecimalStr(i) ==
    IF i < 10 THEN <<Digits[i + 1]>>
    ELSE Append(DecimalStr(i \div 10), Digits[(i % 10) + 1])

\* repr(v) of a scalar or of a list of them; a str is quoted, without escapes
RECURSIVE PyRepr(_)
PyRepr(v) ==
    CASE v.t = "str"  -> <<"'">> \o v.s \o <<"'">>
      [] v.t = "int"  -> DecimalStr(v.n)
      [] v.t = "none" -> <<"N", "o", "n", "e">>
      [] v.t = "list" ->
            LET RECURSIVE Join(_)
                Join(xs) == IF xs = <<>> THEN <<>>
                            ELSE IF Len(xs) = 1 THEN PyRepr(xs[1])
                            ELSE PyRepr(xs[1]) \o <<",", " ">> \o Join(Tail(xs))
            IN  <<"[">> \o Join(v.l) \o <<"]">>

\* str(v)
PyStr(v) ==
    CASE v.t = "str"  -> v.s
      [] v.t = "int"  -> DecimalStr(v.n)
      [] v.t = "none" -> <<"N", "o", "n", "e">>
      [] v.t = "list" -> PyRepr(v)

LowerChar(c) ==
    IF \E i \in DOMAIN UpperLetters : UpperLetters[i] = c
    THEN LowerLetters[CHOOSE i \in DOMAIN UpperLetters : UpperLetters[i] = c]
    ELSE c

\* s.lower()
Lower(s) == [i \in DOMAIN s |-> LowerChar(s[i])]

RECURSIVE LStrip(_)
LStrip(s) ==
    IF s # <<>> /\ Head(s) \in Whitespace THEN LStrip(Tail(s)) ELSE s

RECURSIVE RStrip(_)
RStrip(s) ==
    IF s # <<>> /\ s[Len(s)] \in Whitespace
    THEN RStrip(SubSeq(s, 1, Len(s) - 1))
    ELSE s

\* s.strip()
Strip(s) == RStrip(LStrip(s))

\* s.replace("  ", " "): one left-to-right pass over non-overlapping matches
RECURSIVE ReplaceDoubleSpace(_)
ReplaceDoubleSpace(s) ==
    IF Len(s) < 2 THEN s
    ELSE IF s[1] = " " /\ s[2] = " "
         THEN <<" ">> \o ReplaceDoubleSpace(SubSeq(s, 3, Len(s)))
         ELSE <<s[1]>> \o ReplaceDoubleSpace(Tail(s))

\* s[:k]
Prefix(s, k) == SubSeq(s, 1, IF Len(s) < k THEN Len(s) ELSE k)

(***************************************************************************)
(* normalizer.py: normalize_events                                         *)
(***************************************************************************)
EnvelopeKeys == <<"events", "data", "results", "races", "items", "list",
                  "eventList", "Events", "Data">>

SingleEventKeys == <<"name", "event_name", "race_name", "title", "EventName">>

IsEventNameKeys == <<"event_name", "name", "race_name", "title", "EventName",
                     "eventName">>

RaceNameKeys == <<"event_name", "name", "race_name", "title",
                  "EventName", "eventName", "RaceName", "event">>

\* the race_date aliases without the canonical field name
RaceDateKeysNoCanonical == <<"date", "event_date", "start_date",
                             "EventDate", "eventDate", "RaceDate", "scheduled_date">>

RaceDateKeys == <<"race_date", "date", "event_date", "start_date",
                  "EventDate", "eventDate", "RaceDate", "scheduled_date">>

CityKeys == <<"city", "location", "venue", "place",
              "City", "Location", "Venue", "Place">>

DistancesKeys == <<"categories", "distances", "race_types",
                   "Categories", "Distances", "race_categories">>

\* the participant_count aliases without total_runners
ParticipantCountKeysShort == <<"participant_count", "participants", "total_participants",
                               "count", "finishers", "ParticipantCount">>

ParticipantCountKeys == <<"participant_count", "participants", "total_participants",
                          "count", "total_runners", "finishers", "ParticipantCount">>

EventIdKeys == <<"id", "event_id", "race_id", "EventId", "Id">>

\* _first with a truthiness test in place of `is not None`: the number 0 is skipped
RECURSIVE FirstTruthy(_, _)
FirstTruthy(d, keys) ==
    IF keys = <<>> THEN NoneV
    ELSE LET v == Get(d, Head(keys))
         IN  IF Truthy(v) /\ Strip(PyStr(v)) # <<>> THEN v
             ELSE FirstTruthy(d, Tail(keys))

\* _first(d, keys): the first value that is not None and whose str() is
\* non-empty after strip(); None when there is none
RECURSIVE First(_, _)
First(d, keys) ==
    IF keys = <<>> THEN NoneV
    ELSE LET v == Get(d, Head(keys))
         IN  IF v # NoneV /\ Strip(PyStr(v)) # <<>> THEN v
             ELSE First(d, Tail(keys))

\* _clean(value)
Clean(value) == IF value = NoneV THEN <<>> ELSE Strip(PyStr(value))

\* _extract_items(raw): the list of candidate items, as a sequence of values
RECURSIVE FirstEnvelope(_, _)
FirstEnvelope(d, keys) ==
    IF keys = <<>> THEN NoneV
    ELSE IF Head(keys) \in DOMAIN d /\ IsList(d[Head(keys)]) THEN d[Head(keys)]
         ELSE FirstEnvelope(d, Tail(keys))

LooksLikeSingleEvent(d) ==
    \E i \in DOMAIN SingleEventKeys : SingleEventKeys[i] \in DOMAIN d

\* _extract_items with the single-event test moved before the envelope scan
ExtractItemsSingleFirst(r) ==
    IF IsList(r) THEN r.l
    ELSE IF IsDict(r)
         THEN IF LooksLikeSingleEvent(r.d) THEN <<r>>
              ELSE IF FirstEnvelope(r.d, EnvelopeKeys) # NoneV
                   THEN FirstEnvelope(r.d, EnvelopeKeys).l
                   ELSE <<>>
         ELSE <<>>

ExtractItems(r) ==
    IF IsList(r) THEN r.l
    ELSE IF IsDict(r)
         THEN IF FirstEnvelope(r.d, EnvelopeKeys) # NoneV
              THEN FirstEnvelope(r.d, EnvelopeKeys).l
              ELSE IF LooksLikeSingleEvent(r.d) THEN <<r>> ELSE <<>>
         ELSE <<>>

\* _is_event without the name test
IsEventAnyDict(item) == IsDict(item)

\* _is_event(item): bool(name and str(name).strip())
IsEvent(item) ==
    IF ~IsDict(item) THEN FALSE
    ELSE LET name == First(item.d, IsEventNameKeys)
         IN  Truthy(name) /\ Strip(PyStr(name)) # <<>>

\* _normalize_item that lets the item's own provenance keys win
NormalizeItemOwnProvenance(item, src, url) ==
    [f \in {"race_name", "race_date", "city", "distances", "participant_count",
            "event_id", "timing_company", "source_url"} |->
        CASE f = "race_name"         -> StrV(Clean(First(item.d, RaceNameKeys)))
          [] f = "race_date"         -> StrV(Clean(First(item.d, RaceDateKeys)))
          [] f = "city"              -> StrV(Clean(First(item.d, CityKeys)))
          [] f = "distances"         -> StrV(Clean(First(item.d, DistancesKeys)))
          [] f = "participant_count" -> StrV(Clean(First(item.d, ParticipantCountKeys)))
          [] f = "event_id"          -> StrV(Clean(First(item.d, EventIdKeys)))
          [] f = "timing_company"    -> GetOr(item.d, "timing_company", src)
          [] f = "source_url"        -> GetOr(item.d, "source_url", url)]

\* _normalize_item(item, source, source_url): the record, a mapping from the
\* eight schema fields to values
NormalizeItem(item, src, url) ==
    [f \in {"race_name", "race_date", "city", "distances", "participant_count",
            "event_id", "timing_company", "source_url"} |->
        CASE f = "race_name"         -> StrV(Clean(First(item.d, RaceNameKeys)))
          [] f = "race_date"         -> StrV(Clean(First(item.d, RaceDateKeys)))
          [] f = "city"              -> StrV(Clean(First(item.d, CityKeys)))
          [] f = "distances"         -> StrV(Clean(First(item.d, DistancesKeys)))
          [] f = "participant_count" -> StrV(Clean(First(item.d, ParticipantCountKeys)))
          [] f = "event_id"          -> StrV(Clean(First(item.d, EventIdKeys)))
          [] f = "timing_company"    -> src
          [] f = "source_url"        -> url]

\* the comprehension as a loop that stops at the first item that is no event
RECURSIVE NormalizeItemsUntilInvalid(_, _, _)
NormalizeItemsUntilInvalid(items, src, url) ==
    IF items = <<>> THEN <<>>
    ELSE IF IsEvent(Head(items))
         THEN <<NormalizeItem(Head(items), src, url)>>
              \o NormalizeItemsUntilInvalid(Tail(items), src, url)
         ELSE <<>>

\* [_normalize_item(item, ...) for item in items if _is_event(item)]
RECURSIVE NormalizeItems(_, _, _)
NormalizeItems(items, src, url) ==
    IF items = <<>> THEN <<>>
    ELSE IF IsEvent(Head(items))
         THEN <<NormalizeItem(Head(items), src, url)>> \o NormalizeItems(Tail(items), src, url)
         ELSE NormalizeItems(Tail(items), src, url)

NormalizeEvents(r, src, url) == NormalizeItems(ExtractItems(r), src, url)

(***************************************************************************)
(* normalizer.py: dedup_events                                             *)
(***************************************************************************)
\* _dedup_key without the year
DedupKeyNoYear(event) ==
    <<ReplaceDoubleSpace(Strip(Lower(GetOr(event, "race_name", StrV(<<>>)).s))), <<>>>>

\* _dedup_key without .lower()
DedupKeyCaseSensitive(event) ==
    LET name_norm == ReplaceDoubleSpace(Strip(GetOr(event, "race_name", StrV(<<>>)).s))
        date_str  == GetOr(event, "race_date", StrV(<<>>)).s
        year      == IF Len(date_str) >= 4 THEN StrV(Prefix(date_str, 4))
                     ELSE GetOr(event, "year", StrV(<<>>))
    IN  <<name_norm, PyStr(year)>>

\* _dedup_key(event): <<name_norm, str(year)>>
DedupKey(event) ==
    LET name_norm == ReplaceDoubleSpace(Strip(Lower(GetOr(event, "race_name", StrV(<<>>)).s)))
        date_str  == GetOr(event, "race_date", StrV(<<>>)).s
        year      == IF Len(date_str) >= 4 THEN StrV(Prefix(date_str, 4))
                     ELSE GetOr(event, "year", StrV(<<>>))
    IN  <<name_norm, PyStr(year)>>

\* the dedup loop without seen.add(key)
RECURSIVE DedupLoopNoAdd(_, _, _, _, _)
DedupLoopNoAdd(evs, i, seen, uniq, dups) ==
    IF i > Len(evs) THEN [unique |-> uniq, duplicates |-> dups]
    ELSE IF DedupKey(evs[i]) \in seen
         THEN DedupLoopNoAdd(evs, i + 1, seen, uniq, Append(dups, i))
         ELSE DedupLoopNoAdd(evs, i + 1, seen, Append(uniq, i), dups)

\* the dedup loop with duplicates.insert(0, event)
RECURSIVE DedupLoopPrepend(_, _, _, _, _)
DedupLoopPrepend(evs, i, seen, uniq, dups) ==
    IF i > Len(evs) THEN [unique |-> uniq, duplicates |-> dups]
    ELSE LET key == DedupKey(evs[i])
         IN  IF key \in seen
             THEN DedupLoopPrepend(evs, i + 1, seen, uniq, <<i>> \o dups)
             ELSE DedupLoopPrepend(evs, i + 1, seen \cup {key}, Append(uniq, i), dups)

\* dedup_events(events): one left-to-right pass.  unique and duplicates hold
\* references to the input's records, modelled as positions in the input.
RECURSIVE DedupLoop(_, _, _, _, _)
\* the loop, if it forgot a key each time it met a duplicate of it
RECURSIVE DedupLoopForgetOnDuplicate(_, _, _, _, _)
DedupLoopForgetOnDuplicate(evs, i, seen, uniq, dups) ==
    IF i > Len(evs) THEN [unique |-> uniq, duplicates |-> dups]
    ELSE LET key == DedupKey(evs[i])
         IN  IF key \in seen
             THEN DedupLoopForgetOnDuplicate(evs, i + 1, seen \ {key}, uniq, Append(dups, i))
             ELSE DedupLoopForgetOnDuplicate(evs, i + 1, seen \cup {key}, Append(uniq, i), dups)

DedupLoop(evs, i, seen, uniq, dups) ==
    IF i > Len(evs) THEN [unique |-> uniq, duplicates |-> dups]
    ELSE LET key == DedupKey(evs[i])
         IN  IF key \in seen
             THEN DedupLoop(evs, i + 1, seen, uniq, Append(dups, i))
             ELSE DedupLoop(evs, i + 1, seen \cup {key}, Append(uniq, i), dups)

DedupEvents(evs) == DedupLoop(evs, 1, {}, <<>>, <<>>)

(***************************************************************************)
(* race_registry_scraper.py: the inlined normalize_events                  *)
(***************************************************************************)
ScraperEnvelopeKeys == <<"events", "data", "results", "races", "items", "list",
                         "eventList", "Events">>

ScraperSingleEventKeys == <<"name", "event_name", "race_name", "title">>

ScraperRaceNameKeys == <<"event_name", "name", "race_name", "title",
                         "EventName", "eventName", "RaceName", "event">>

ScraperRaceDateKeys == <<"race_date", "date", "event_date", "start_date",
                         "EventDate", "eventDate", "RaceDate", "scheduled_date">>

ScraperParticipantCountKeys == <<"participant_count", "participants", "total_participants",
                                 "count", "total_runners", "finishers", "ParticipantCount">>

\* the scraper's own _first: the same loop as normalizer._first
ScraperFirst(d, keys) == First(d, keys)

ScraperCityKeys == <<"city", "location", "venue", "place", "City", "Location", "Venue">>

ScraperDistancesKeys == <<"categories", "distances", "race_types", "events",
                          "Categories", "Distances", "race_categories">>

ScraperEventIdKeys == <<"id", "event_id", "race_id", "EventId">>

\* items = raw / raw[key] of the first list envelope / [raw] when items is
\* still empty and raw has a name-like key
ScraperExtractItems(r) ==
    IF IsList(r) THEN r.l
    ELSE IF IsDict(r)
         THEN LET env == FirstEnvelope(r.d, ScraperEnvelopeKeys)
                  items == IF env # NoneV THEN env.l ELSE <<>>
              IN  IF items = <<>>
                     /\ \E i \in DOMAIN ScraperSingleEventKeys :
                            ScraperSingleEventKeys[i] \in DOMAIN r.d
                  THEN <<r>>
                  ELSE items
         ELSE <<>>

\* str(x).strip() if x else ""
ScraperField(x) == IF Truthy(x) THEN StrV(Strip(PyStr(x))) ELSE StrV(<<>>)

\* the body of `for item in items`: the records the item adds to events
ScraperNormalizeItem(item, src, url) ==
    IF ~IsDict(item) THEN <<>>
    ELSE LET name == ScraperFirst(item.d, ScraperRaceNameKeys)
         IN  IF Truthy(name) /\ Strip(PyStr(name)) # <<>>
             THEN <<[f \in {"race_name", "race_date", "city", "distances",
                            "participant_count", "event_id", "timing_company",
                            "source_url"} |->
                     CASE f = "race_name"         -> StrV(Strip(PyStr(name)))
                       [] f = "race_date"         -> ScraperField(ScraperFirst(item.d, ScraperRaceDateKeys))
                       [] f = "city"              -> ScraperField(ScraperFirst(item.d, ScraperCityKeys))
                       [] f = "distances"         -> ScraperField(ScraperFirst(item.d, ScraperDistancesKeys))
                       [] f = "participant_count" -> ScraperField(ScraperFirst(item.d, ScraperParticipantCountKeys))
                       [] f = "event_id"          -> ScraperField(ScraperFirst(item.d, ScraperEventIdKeys))
                       [] f = "timing_company"    -> src
                       [] f = "source_url"        -> url]>>
             ELSE <<>>

RECURSIVE ScraperNormalizeItems(_, _, _)
ScraperNormalizeItems(items, src, url) ==
    IF items = <<>> THEN <<>>
    ELSE ScraperNormalizeItem(Head(items), src, url)
         \o ScraperNormalizeItems(Tail(items), src, url)

ScraperNormalizeEvents(r, src, url) ==
    ScraperNormalizeItems(ScraperExtractItems(r), src, url)

(***************************************************************************)
(* race_registry_scraper.py: fetch_direct                                  *)
(***************************************************************************)
\* for e in events: if not e.get("year"): e["year"] = year
AttachYear(e, year) ==
    IF Truthy(Get(e, "year")) THEN e
    ELSE [k \in DOMAIN e \cup {"year"} |-> IF k = "year" THEN IntV(year) ELSE e[k]]

\* f"{api_url}?{year_param}={year}"
YearUrl(api_url, year) == StrV(api_url \o <<"?", "y", "=">> \o DecimalStr(year))

\* one iteration of `for year in years`: the events this year adds to all_events
FetchYear(resp, src, api_url, year) ==
    IF resp.status = 200
    THEN LET evs == ScraperNormalizeEvents(resp.data, src, YearUrl(api_url, year))
         IN  [i \in DOMAIN evs |-> AttachYear(evs[i], year)]
    ELSE <<>>

RECURSIVE FetchDirect(_, _, _, _)
FetchDirect(resps, src, api_url, years) ==
    IF years = <<>> THEN <<>>
    ELSE FetchYear(Head(resps), src, api_url, Head(years))
         \o FetchDirect(Tail(resps), src, api_url, Tail(years))

(***************************************************************************)
(* race_registry_scraper.py: scrape_playwright                             *)
(***************************************************************************)
Keywords == {<<"e", "v", "e", "n", "t">>, <<"r", "a", "c", "e">>,
             <<"m", "a", "r", "a", "t", "h", "o", "n">>,
             <<"r", "e", "s", "u", "l", "t">>}

\* k in s, for two strings
Contains(s, k) ==
    \E i \in 1..(Len(s) - Len(k) + 1) : SubSeq(s, i, i + Len(k) - 1) = k

HasKeyword(s) == \E k \in Keywords : Contains(s, k)

\* the characters json.dumps writes for a key of a captured body
KeyText(k) ==
    CASE k = "events"    -> <<"e", "v", "e", "n", "t", "s">>
      [] k = "name"      -> <<"n", "a", "m", "e">>
      [] k = "date"      -> <<"d", "a", "t", "e">>
      [] k = "race_name" -> <<"r", "a", "c", "e", "_", "n", "a", "m", "e">>
      [] k = "status"    -> <<"s", "t", "a", "t", "u", "s">>

\* any(k in json.dumps(body).lower() for k in keywords): a keyword is made of
\* letters only, so it occurs in the dump iff it occurs in one key or in one
\* string value (the punctuation, numbers and null between them hold none)
RECURSIVE BodyMatches(_)
BodyMatches(v) ==
    CASE v.t = "str"  -> HasKeyword(Lower(v.s))
      [] v.t = "list" -> \E i \in DOMAIN v.l : BodyMatches(v.l[i])
      [] v.t = "dict" -> \E k \in DOMAIN v.d :
                             HasKeyword(Lower(KeyText(k))) \/ BodyMatches(v.d[k])
      [] OTHER        -> FALSE

CapturedResourceTypes == {"xhr", "fetch"}

\* for item in event_buffer: all_events.extend(normalize_events(...))
RECURSIVE NormalizeBuffer(_, _)
NormalizeBuffer(buffer, site_key) ==
    IF buffer = <<>> THEN <<>>
    ELSE ScraperNormalizeEvents(Head(buffer).body, site_key, Head(buffer).url)
         \o NormalizeBuffer(Tail(buffer), site_key)

\* str.isdigit() on ASCII text
IsDigitStr(s) == s # <<>> /\ \A i \in DOMAIN s : IsDigit(s[i])

\* page.url when the DOM fallback runs
PageUrl == StrV(<<"p">>)

\* the body of `for opt in options`: the records the option adds
DomRecord(opt, site_key) ==
    LET text == IF Truthy(opt.text) THEN Strip(opt.text.s) ELSE <<>>
    IN  IF text # <<>> /\ Len(text) > 5 /\ ~IsDigitStr(text)
        THEN <<[f \in {"race_name", "race_date", "city", "distances",
                       "participant_count", "timing_company", "source_url"} |->
                CASE f = "race_name"      -> StrV(text)
                  [] f = "race_date"      -> IF Truthy(opt.val) THEN StrV(PyStr(opt.val))
                                             ELSE StrV(<<>>)
                  [] f = "timing_company" -> site_key
                  [] f = "source_url"     -> PageUrl
                  [] OTHER                -> StrV(<<>>)]>>
        ELSE <<>>

RECURSIVE DomRecords(_, _)
DomRecords(options, site_key) ==
    IF options = <<>> THEN <<>>
    ELSE DomRecord(Head(options), site_key) \o DomRecords(Tail(options), site_key)

\* e.get("race_name", "").lower().strip()
SiteKey(e) == Strip(Lower(GetOr(e, "race_name", StrV(<<>>)).s))

\* the within-site dedup loop; unique holds positions in all_events
RECURSIVE SiteDedupLoop(_, _, _, _)
SiteDedupLoop(evs, i, seen, uniq) ==
    IF i > Len(evs) THEN uniq
    ELSE LET key == SiteKey(evs[i])
         IN  IF key # <<>> /\ key \notin seen
             THEN SiteDedupLoop(evs, i + 1, seen \cup {key}, Append(uniq, i))
             ELSE SiteDedupLoop(evs, i + 1, seen, uniq)

SiteDedup(evs) == SiteDedupLoop(evs, 1, {}, <<>>)

(***************************************************************************)
(* Inputs                                                                  *)
(***************************************************************************)
MaxItems == 2

MaxEvents == 3

\* sequences over S of length lo..hi
SeqsBetween(S, lo, hi) == UNION {[1..n -> S] : n \in lo..hi}

sGoa == <<"G", "o", "a">>

sRun == <<"R", "u", "n">>

sBlank == <<" ">>

sPadGoa == <<" ", "G", "o", "a", " ">>

s2024 == <<"2", "0", "2", "4", "-", "1", "0">>

s2023 == <<"2", "0", "2", "3">>

sOct == <<"O", "c", "t", " ", "2", "0", "2", "4">>

s202 == <<"2", "0", "2">>

sJan == <<"J", "a", "n", " ", "2", "0", "2", "3">>

\* a mapping with one key
One(k, v) == [x \in {k} |-> v]

\* a mapping with two keys
Two(k1, v1, k2, v2) == [x \in {k1, k2} |-> IF x = k1 THEN v1 ELSE v2]

sExampleUrl == <<"h", "t", "t", "p", "s", ":", "/", "/", "x", "/", "y">>

sGoaRiver == <<"G", "o", "a", " ", "R", "i", "v", "e", "r", " ",
               "M", "a", "r", "a", "t", "h", "o", "n">>

sSept == <<"2", "0", "2", "4", "-", "0", "9", "-", "0", "1">>

\* {"events": [{"EventName": "Goa River Marathon", "EventDate": "2024-09-01",
\*              "total_runners": 1500}]}
ExamplePayload ==
    DictV(One("events", ListV(<<
        DictV([k \in {"EventName", "EventDate", "total_runners"} |->
                 CASE k = "EventName" -> StrV(sGoaRiver)
                   [] k = "EventDate" -> StrV(sSept)
                   [] k = "total_runners" -> IntV(1500)])>>)))

NameKeysUsed == {"event_name", "name", "eventName", "RaceName"}

NameVals == {StrV(sPadGoa), StrV(sBlank), IntV(0)}

\* the name-bearing part of an item
NameParts ==
    {EmptyDict, One("name", NoneV), One("title", StrV(<<>>))}
    \cup {One(k, v) : k \in NameKeysUsed, v \in NameVals}
    \cup {Two("event_name", v1, "name", v2) : v1 \in NameVals \cup {StrV(sRun)}, v2 \in NameVals}

\* the other fields of an item
RestParts ==
    { One("date", StrV(s2024)),
      Two("race_date", StrV(sBlank), "date", StrV(<<" ">> \o s2023)),
      Two("race_date", StrV(s2024), "date", StrV(s2023)),
      Two("race_date", NoneV, "RaceDate", IntV(2024)),
      Two("count", IntV(0), "total_runners", IntV(1500)),
      Two("participants", StrV(<<>>), "finishers", IntV(12)),
      Two("EventDate", StrV(s2024), "total_runners", IntV(1500)),
      Two("id", IntV(7), "City", StrV(sPadGoa)),
      Two("venue", StrV(sRun), "location", StrV(sGoa)),
      Two("Distances", StrV(<<"5", "K">>), "race_id", StrV(<<"x">>)),
      Two("timing_company", StrV(sRun), "source_url", StrV(sGoa)) }

Merge(f, g) == [k \in DOMAIN f \cup DOMAIN g |-> IF k \in DOMAIN f THEN f[k] ELSE g[k]]

Items ==
    {DictV(n) : n \in NameParts}
    \cup {DictV(Merge(One("name", StrV(sPadGoa)), r)) : r \in RestParts}
    \cup {DictV(Merge(One("eventName", StrV(sRun)), r)) : r \in RestParts}

\* the items that lists of two and more are made of
CoreItems ==
    { DictV(EmptyDict),
      DictV(One("name", StrV(sPadGoa))),
      DictV(One("name", StrV(sBlank))),
      DictV(One("name", IntV(0))),
      DictV(One("eventName", StrV(sRun))),
      DictV(One("RaceName", StrV(sRun))),
      DictV(Two("event_name", StrV(sRun), "date", StrV(s2024))),
      DictV(Two("name", StrV(sGoa), "date", StrV(s2023))) }

ItemLists == SeqsBetween(Items, 0, 1) \cup SeqsBetween(CoreItems, 2, MaxItems)

CoreLists == SeqsBetween(CoreItems, 0, MaxItems)

\* values that are no mapping: None, scalars, a list
NonMappings == {NoneV, StrV(sGoa), IntV(3), IntV(0), ListV(<<>>),
                ListV(<<DictV(One("name", StrV(sGoa)))>>)}

\* item lists with entries that are no mapping
MixedLists ==
    {<<x>> : x \in NonMappings}
    \cup {<<x, i>> : x \in NonMappings, i \in CoreItems}
    \cup {<<i, x>> : x \in NonMappings, i \in CoreItems}

ShortLists == SeqsBetween(CoreItems, 0, 1)

EnvelopeKeysUsed == {"events", "list", "Data"}

Payloads ==
    {ListV(l) : l \in ItemLists}
    \cup Items
    \cup {DictV(One(k, ListV(l))) : k \in EnvelopeKeysUsed, l \in CoreLists}
    \cup {DictV(Two("data", StrV(sRun), "Events", ListV(l))) : l \in CoreLists}
    \cup {DictV(Two("Data", ListV(l1), "events", ListV(l2))) : l1, l2 \in ShortLists}
    \cup {DictV(Two("events", ListV(l), "name", StrV(sGoa))) : l \in CoreLists}
    \cup {DictV(Two("events", v, "name", StrV(sGoa))) : v \in {StrV(sRun), NoneV, IntV(3)}}
    \cup {DictV(One("status", StrV(sRun)))}
    \cup {NoneV, StrV(sGoa), IntV(3), DictV(One("events", DictV(One("name", StrV(sGoa)))))}
    \cup {ListV(l) : l \in MixedLists}
    \cup {ExamplePayload}
    \cup {DictV(One("events", ListV(l))) : l \in MixedLists}

Sources == {StrV(<<"S", "T", "S">>), StrV(<<"i", "F">>), IntV(5)}

Urls == {StrV(<<"u">>), StrV(sExampleUrl)}

Years == <<2023, 2024>>

Responses ==
    {[status |-> 200, data |-> p] :
        p \in {ListV(l) : l \in ShortLists} \cup {DictV(One("events", ListV(l))) : l \in ShortLists}}
    \cup {[status |-> 500, data |-> NoneV]}

\* a normalized record as dedup_events receives it, with or without 'year'
Rec(name, date) == Two("race_name", StrV(name), "race_date", StrV(date))

RecY(name, date, year) == Merge(Rec(name, date), One("year", year))

RecNames == {sGoa, <<" ", "g", "O", "A">>, sRun}

RecDates == {s2024, s2023, <<>>, s202, sOct, sJan}

Records ==
    {Rec(n, d) : n \in RecNames, d \in RecDates}
    \cup {RecY(n, d, IntV(2024)) : n \in RecNames, d \in RecDates}

CoreRecords ==
    { Rec(sGoa, s2024), Rec(<<" ", "g", "O", "A">>, s2024), Rec(sGoa, s2023),
      Rec(sRun, s2024), RecY(sGoa, <<>>, IntV(2024)), Rec(sGoa, sOct) }

\* one name written with one, two, three and four spaces between its words
SpacedNames ==
    { <<"G", "o", "a", " ", "R", "u", "n">>,
      <<"G", "o", "a", " ", " ", "R", "u", "n">>,
      <<"G", "o", "a", " ", " ", " ", "R", "u", "n">>,
      <<"G", "o", "a", " ", " ", " ", " ", "R", "u", "n">> }

SpacedRecords == {Rec(n, d) : n \in SpacedNames, d \in {s2024, s2023}}

EventLists ==
    SeqsBetween(Records, 0, 2)
    \cup SeqsBetween(CoreRecords, 3, MaxEvents)
    \cup SeqsBetween(SpacedRecords, 2, 2)

\* the most responses a page receives while scrape_playwright runs
MaxResponses == 2

sGoaRun == <<" ", "G", "o", "a", " ", "R", "u", "n", " ">>

\* two editions of one race under an envelope
bTwoYears ==
    DictV(One("events", ListV(<<DictV(Two("name", StrV(sGoa), "date", StrV(s2024))),
                                DictV(Two("name", StrV(sGoa), "date", StrV(s2023)))>>)))

bRace == ListV(<<DictV(One("race_name", StrV(sRun)))>>)

\* a body that holds none of the keywords
bPlain == ListV(<<DictV(One("name", StrV(sGoa)))>>)

bMarathon == ListV(<<DictV(One("name", StrV(sGoaRiver)))>>)

PwResponse(rtype, url, body, is_json) ==
    [resource_type |-> rtype, url |-> StrV(url), method |-> "GET",
     body |-> body, is_json |-> is_json]

PwResponses ==
    { PwResponse("xhr", <<"u">>, bTwoYears, TRUE),
      PwResponse("fetch", <<"v">>, bRace, TRUE),
      PwResponse("xhr", <<"u">>, bPlain, TRUE),
      PwResponse("fetch", <<"v">>, bMarathon, TRUE),
      PwResponse("xhr", <<"v">>, NoneV, FALSE),
      PwResponse("document", <<"u">>, NoneV, FALSE) }

PwSites == {StrV(<<"S", "T", "S">>)}

PwOption(text, val) == [text |-> text, val |-> val]

\* the <option> elements of the page: a race, a year, a short label, no text
PwOptionLists ==
    { <<>>,
      <<PwOption(StrV(sGoaRun), StrV(s2023))>>,
      <<PwOption(StrV(s2024), StrV(s2024)), PwOption(StrV(sGoaRun), NoneV)>>,
      <<PwOption(StrV(sGoa), StrV(sGoa)), PwOption(NoneV, NoneV)>> }

(***************************************************************************)
(* The calls                                                               *)
(***************************************************************************)
Init ==
    /\ pc = "idle"
    /\ raw = NoneV
    /\ source = NoneV
    /\ source_url = NoneV
    /\ result = <<>>
    /\ responses = <<>>
    /\ all_events = <<>>
    /\ events = <<>>
    /\ unique = <<>>
    /\ duplicates = <<>>
    /\ records = <<>>
    /\ event_buffer = <<>>
    /\ reading = {}
    /\ response_count = 0

\* a caller runs normalize_events(raw, source, source_url)
CallNormalizeEvents ==
    /\ pc = "idle"
    /\ \E r \in Payloads, src \in Sources, url \in Urls :
        /\ raw' = r
        /\ source' = src
        /\ source_url' = url
        /\ result' = NormalizeEvents(r, src, url)
    /\ pc' = "normalized"
    /\ UNCHANGED <<responses, all_events, events, unique, duplicates, records, event_buffer,
                 reading, response_count>>

\* a caller runs fetch_direct(api_url, year_param, years, source)
CallFetchDirect ==
    /\ pc = "idle"
    /\ \E resps \in [DOMAIN Years -> Responses], src \in Sources :
        /\ responses' = resps
        /\ source' = src
        /\ all_events' = FetchDirect(resps, src, <<"a">>, Years)
    /\ pc' = "fetched"
    /\ UNCHANGED <<raw, source_url, result, events, unique, duplicates, records, event_buffer,
                 reading, response_count>>

\* dedup_events that stores the year it derived in each record
CallDedupEventsStoringYear ==
    /\ pc = "idle"
    /\ \E evs \in EventLists :
        /\ events' = evs
        /\ unique' = DedupEvents(evs).unique
        /\ duplicates' = DedupEvents(evs).duplicates
        /\ records' = [i \in DOMAIN evs |->
                          [k \in DOMAIN evs[i] \cup {"year"} |->
                              IF k = "year" THEN StrV(DedupKey(evs[i])[2]) ELSE evs[i][k]]]
    /\ pc' = "deduped"
    /\ UNCHANGED <<raw, source, source_url, result, responses, all_events,
                 event_buffer, reading, response_count>>

\* a caller runs dedup_events(events); the loop reads the records and
\* appends references to them, and assigns to none of them
CallDedupEvents ==
    /\ pc = "idle"
    /\ \E evs \in EventLists :
        /\ events' = evs
        /\ unique' = DedupEvents(evs).unique
        /\ duplicates' = DedupEvents(evs).duplicates
        /\ records' = evs
    /\ pc' = "deduped"
    /\ UNCHANGED <<raw, source, source_url, result, responses, all_events,
                 event_buffer, reading, response_count>>

\* a caller starts scrape_playwright(site_key, urls, years): the browser
\* is launched, on_response is registered and the page loads begin
StartScrapePlaywright ==
    /\ pc = "idle"
    /\ \E site_key \in PwSites : source' = site_key
    /\ all_events' = <<>>
    /\ event_buffer' = <<>>
    /\ reading' = {}
    /\ response_count' = 0
    /\ pc' = "pw_loading"
    /\ UNCHANGED <<raw, source_url, result, responses, events, unique, duplicates, records>>

\* the points where scrape_playwright awaits, so that the event loop runs
\* the on_response tasks: the page loads, the DOM queries, browser.close()
AwaitPoints == {"pw_loading", "pw_dom", "pw_close"}

\* the page receives a response and on_response starts: it returns for a
\* resource type other than xhr/fetch, else it awaits response.json()
OnResponse ==
    /\ pc \in AwaitPoints
    /\ response_count < MaxResponses
    /\ \E r \in PwResponses :
        /\ response_count' = response_count + 1
        /\ reading' = IF r.resource_type \in CapturedResourceTypes
                      THEN reading \cup {[id |-> response_count + 1, response |-> r]}
                      ELSE reading
    /\ UNCHANGED <<pc, raw, source, source_url, result, responses, all_events, events,
                   unique, duplicates, records, event_buffer>>

\* response.json() of one on_response task completes: an exception is
\* swallowed, a body with a keyword is appended to event_buffer
BodyRead ==
    /\ pc \in AwaitPoints
    /\ \E task \in reading :
        /\ reading' = reading \ {task}
        /\ event_buffer' =
               IF task.response.is_json /\ BodyMatches(task.response.body)
               THEN Append(event_buffer, [url    |-> task.response.url,
                                          body   |-> task.response.body,
                                          method |-> task.response.method])
               ELSE event_buffer
    /\ UNCHANGED <<pc, raw, source, source_url, result, responses, all_events, events,
                   unique, duplicates, records, response_count>>

\* the page loads are over: every item of event_buffer is normalized
ProcessEventBuffer ==
    /\ pc = "pw_loading"
    /\ all_events' = NormalizeBuffer(event_buffer, source)
    /\ pc' = "pw_dom"
    /\ UNCHANGED <<raw, source, source_url, result, responses, events, unique, duplicates,
                   records, event_buffer, reading, response_count>>

\* the DOM fallback: one record per <option> that looks like a race name
\* (a query that raises ends the loop early: a shorter list of options)
DomFallback ==
    /\ pc = "pw_dom"
    /\ \E options \in PwOptionLists :
           all_events' = all_events \o DomRecords(options, source)
    /\ pc' = "pw_close"
    /\ UNCHANGED <<raw, source, source_url, result, responses, events, unique, duplicates,
                   records, event_buffer, reading, response_count>>

\* browser.close() returns, the body reads still pending never complete;
\* then the within-site dedup runs and scrape_playwright returns unique
CloseAndReturn ==
    /\ pc = "pw_close"
    /\ reading' = {}
    /\ unique' = SiteDedup(all_events)
    /\ pc' = "scraped"
    /\ UNCHANGED <<raw, source, source_url, result, responses, all_events, events,
                   duplicates, records, event_buffer, response_count>>

Next ==
    \/ CallNormalizeEvents
    \/ CallFetchDirect
    \/ CallDedupEvents
    \/ StartScrapePlaywright
    \/ OnResponse
    \/ BodyRead
    \/ ProcessEventBuffer
    \/ DomFallback
    \/ CloseAndReturn

Spec == Init /\ [][Next]_vars

(***************************************************************************)
(* Helpers of the properties                                               *)
(***************************************************************************)
Range(s) == {s[i] : i \in DOMAIN s}

Increasing(s) == \A i, j \in DOMAIN s : i < j => s[i] < s[j]

Min(S) == CHOOSE m \in S : \A x \in S : m <= x

\* the value under alias k counts: present, not None, non-empty once trimmed
Usable(d, k) == k \in DOMAIN d /\ d[k] # NoneV /\ Strip(PyStr(d[k])) # <<>>

\* the trimmed string under the first usable alias, "" when no alias is usable
FirstUsable(d, keys) ==
    LET Q == {m \in DOMAIN keys : Usable(d, keys[m])}
    IN  IF Q = {} THEN <<>> ELSE Strip(PyStr(d[keys[Min(Q)]]))

\* the item has a non-empty name under some alias that _is_event recognizes
HasName(item) ==
    IsDict(item) /\ \E m \in DOMAIN IsEventNameKeys : Usable(item.d, IsEventNameKeys[m])

IsMappingList(r) == IsList(r) /\ \A i \in DOMAIN r.l : IsDict(r.l[i])

(***************************************************************************)
(* C1: for a root list S of mapping items, normalize_events returns        *)
(* exactly one record per item that has a non-empty (trimmed) name under   *)
(* a recognized alias, in the order of S, and none for any other item.     *)
(***************************************************************************)
C1_OneRecordPerNamedItem ==
    (pc = "normalized" /\ IsMappingList(raw)) =>
        LET named == SelectSeq(raw.l, HasName)
        IN  /\ Len(result) = Len(named)
            /\ \A i \in DOMAIN result :
                   result[i] = NormalizeItem(named[i], source, source_url)

(***************************************************************************)
(* C4: every record normalize_events emits has a non-empty race_name.      *)
(***************************************************************************)
C4_RaceNameNonEmpty ==
    /\ pc = "normalized" =>
           \A i \in DOMAIN result :
               result[i]["race_name"].t = "str" /\ result[i]["race_name"].s # <<>>
    /\ pc = "fetched" =>
           \A i \in DOMAIN all_events :
               all_events[i]["race_name"].t = "str" /\ all_events[i]["race_name"].s # <<>>

\* a call that emitted a record and dropped an item whose name resolves to empty
C4_Witness ==
    /\ pc = "normalized"
    /\ IsMappingList(raw)
    /\ Len(result) >= 1
    /\ \E i \in DOMAIN raw.l :
           /\ "name" \in DOMAIN raw.l[i].d
           /\ FirstUsable(raw.l[i].d, RaceNameKeys) = <<>>

(***************************************************************************)
(* C5: shape-invariance.  A valid event item gives the same records when   *)
(* passed as the root list [item], under an envelope key {key: [item]},    *)
(* or as the single mapping itself.                                        *)
(***************************************************************************)
C5_ShapeInvariance ==
    (/\ pc = "normalized"
     /\ IsDict(raw)
     /\ FirstEnvelope(raw.d, EnvelopeKeys) = NoneV
     /\ IsEvent(raw)) =>
        /\ result = NormalizeEvents(ListV(<<raw>>), source, source_url)
        /\ \A m \in DOMAIN EnvelopeKeys :
               result = NormalizeEvents(DictV(One(EnvelopeKeys[m], ListV(<<raw>>))),
                                        source, source_url)

(***************************************************************************)
(* Helpers of the dedup properties                                         *)
(***************************************************************************)
\* the positions of events before i that have the key of events[i]
EarlierSameKey(i) == {k \in 1..(i - 1) : DedupKey(events[k]) = DedupKey(events[i])}

RaceName(e) == GetOr(e, "race_name", StrV(<<>>)).s

RaceDate(e) == GetOr(e, "race_date", StrV(<<>>)).s

\* race_name as the dedup key normalizes it
NormName(e) == ReplaceDoubleSpace(Strip(Lower(RaceName(e))))

\* race_date starts with a 4-digit year
HasYearPrefix(e) ==
    Len(RaceDate(e)) >= 4 /\ \A m \in 1..4 : IsDigit(RaceDate(e)[m])

\* same normalized name, race_date values starting with different 4-digit years
SameNameOtherYear(a, b) ==
    /\ NormName(a) = NormName(b)
    /\ HasYearPrefix(a) /\ HasYearPrefix(b)
    /\ SubSeq(RaceDate(a), 1, 4) # SubSeq(RaceDate(b), 1, 4)

\* race_name values that differ at most in letter case and outer whitespace
SameNameButCase(a, b) == Lower(Strip(RaceName(a))) = Lower(Strip(RaceName(b)))

(***************************************************************************)
(* C2: dedup_events partitions its input exactly: every record (position)  *)
(* is in exactly one of unique and duplicates, once; the lengths add up;   *)
(* and no two records of unique have the same dedup key.                   *)
(***************************************************************************)
C2_ExactPartition ==
    pc = "deduped" =>
        /\ Range(unique) \cup Range(duplicates) = DOMAIN events
        /\ Range(unique) \cap Range(duplicates) = {}
        /\ Len(unique) + Len(duplicates) = Len(events)
        /\ \A i, j \in DOMAIN unique :
               i # j => DedupKey(events[unique[i]]) # DedupKey(events[unique[j]])

\* an input of three records that splits into two unique and one duplicate
C2_Witness ==
    pc = "deduped" /\ Len(events) = 3 /\ Len(unique) = 2 /\ Len(duplicates) = 1

(***************************************************************************)
(* C3: dedup_events is order-preserving and first-wins: unique is the      *)
(* first record of each key, duplicates all the others, both in input      *)
(* order, and each duplicate has the key of an earlier record of unique.   *)
(***************************************************************************)
C3_FirstWinsInOrder ==
    pc = "deduped" =>
        /\ Increasing(unique)
        /\ Increasing(duplicates)
        /\ Range(unique) = {i \in DOMAIN events : EarlierSameKey(i) = {}}
        /\ Range(duplicates) = {i \in DOMAIN events : EarlierSameKey(i) # {}}
        /\ \A m \in DOMAIN duplicates :
               \E n \in DOMAIN unique :
                   /\ unique[n] < duplicates[m]
                   /\ DedupKey(events[unique[n]]) = DedupKey(events[duplicates[m]])

\* the shape [A(k1), B(k1), C(k2)] -> unique [A, C], duplicates [B]
C3_Witness ==
    pc = "deduped" /\ Len(events) = 3 /\ unique = <<1, 3>> /\ duplicates = <<2>>

(***************************************************************************)
(* C8 as stated: two records with the same normalized name whose           *)
(* race_date values start with different 4-digit years are both put in     *)
(* unique, whatever other records the input contains.                      *)
(***************************************************************************)
C8_BothAlwaysUnique ==
    pc = "deduped" =>
        \A i, j \in DOMAIN events :
            SameNameOtherYear(events[i], events[j]) =>
                i \in Range(unique) /\ j \in Range(unique)

(***************************************************************************)
(* C8 amended: two such records never have the same dedup key, and each    *)
(* of them is in unique unless an earlier record of the input has its      *)
(* dedup key.                                                              *)
(***************************************************************************)
C8_DifferentYearsNotDeduplicated ==
    pc = "deduped" =>
        \A i, j \in DOMAIN events :
            SameNameOtherYear(events[i], events[j]) =>
                /\ DedupKey(events[i]) # DedupKey(events[j])
                /\ (EarlierSameKey(i) = {} => i \in Range(unique))
                /\ (EarlierSameKey(j) = {} => j \in Range(unique))

\* two same-name records of different years, both kept
C8_Witness ==
    /\ pc = "deduped"
    /\ \E i, j \in DOMAIN events :
           /\ SameNameOtherYear(events[i], events[j])
           /\ i \in Range(unique) /\ j \in Range(unique)

(***************************************************************************)
(* C9: two records whose race_name differs only in letter case and outer   *)
(* whitespace and whose year component matches have the same dedup key:    *)
(* the later one goes to duplicates, and the earlier one stays in unique   *)
(* (being the first of its key).                                           *)
(***************************************************************************)
C9_CaseInsensitive ==
    pc = "deduped" =>
        \A i, j \in DOMAIN events :
            (/\ i < j
             /\ SameNameButCase(events[i], events[j])
             /\ DedupKey(events[i])[2] = DedupKey(events[j])[2]) =>
                /\ DedupKey(events[i]) = DedupKey(events[j])
                /\ j \in Range(duplicates)
                /\ (EarlierSameKey(i) = {} => i \in Range(unique))
                /\ (Len(events) = 2 => (unique = <<1>> /\ duplicates = <<2>>))

\* two records, names differing in case and padding, same year: one kept
C9_Witness ==
    /\ pc = "deduped"
    /\ Len(events) = 2
    /\ RaceName(events[1]) # RaceName(events[2])
    /\ SameNameButCase(events[1], events[2])
    /\ unique = <<1>> /\ duplicates = <<2>>

(***************************************************************************)
(* C10: the year component of the dedup key is the first 4 characters of   *)
(* race_date when race_date has at least 4 characters and that slice is    *)
(* numeric; otherwise the string form of the record's 'year' field if it   *)
(* has one, and otherwise the empty string.                                *)
(***************************************************************************)
C10_YearComponent ==
    pc = "deduped" =>
        \A i \in DOMAIN events :
            DedupKey(events[i])[2] =
                IF HasYearPrefix(events[i]) THEN SubSeq(RaceDate(events[i]), 1, 4)
                ELSE IF "year" \in DOMAIN events[i] THEN PyStr(events[i]["year"])
                ELSE <<>>

(***************************************************************************)
(* C6: for a keyed payload the items are the value of the first envelope   *)
(* key, in the order events, data, results, races, items, list, eventList, *)
(* Events, Data, that is present with a list value; this takes priority    *)
(* over single-item detection, so a mapping with such a key and a          *)
(* top-level name-like key is never treated as a single item.              *)
(***************************************************************************)
ListEnvelopes(d) ==
    {m \in DOMAIN EnvelopeKeys : EnvelopeKeys[m] \in DOMAIN d /\ IsList(d[EnvelopeKeys[m]])}

C6_EnvelopeFirst ==
    (pc = "normalized" /\ IsDict(raw) /\ ListEnvelopes(raw.d) # {}) =>
        LET key == EnvelopeKeys[Min(ListEnvelopes(raw.d))]
        IN  /\ ExtractItems(raw) = raw.d[key].l
            /\ result = NormalizeItems(raw.d[key].l, source, source_url)

\* a mapping with an envelope list and a top-level name, read as the collection
C6_Witness ==
    /\ pc = "normalized"
    /\ IsDict(raw)
    /\ {"events", "name"} \subseteq DOMAIN raw.d
    /\ IsList(raw.d["events"])
    /\ Len(result) = 2
    /\ result[1]["race_name"] # raw.d["name"]

(***************************************************************************)
(* C7: in every emitted record each content field is the trimmed string    *)
(* form of the value under the first alias, in the field's alias order,    *)
(* that is present and non-empty once trimmed, and the empty string when   *)
(* no alias qualifies; a number becomes its decimal string.                *)
(***************************************************************************)
C7_FieldMapping ==
    pc = "normalized" =>
        LET valid == SelectSeq(ExtractItems(raw), IsEvent)
        IN  /\ Len(result) = Len(valid)
            /\ \A i \in DOMAIN result :
                   LET d == valid[i].d
                       rec == result[i]
                   IN  /\ rec["race_name"] = StrV(FirstUsable(d, RaceNameKeys))
                       /\ rec["race_date"] = StrV(FirstUsable(d, RaceDateKeys))
                       /\ rec["city"] = StrV(FirstUsable(d, CityKeys))
                       /\ rec["distances"] = StrV(FirstUsable(d, DistancesKeys))
                       /\ rec["participant_count"] = StrV(FirstUsable(d, ParticipantCountKeys))
                       /\ rec["event_id"] = StrV(FirstUsable(d, EventIdKeys))

\* a record with a trimmed name, the number 0 under the earlier count alias
\* as "0", and no date alias
C7_Witness ==
    /\ pc = "normalized"
    /\ Len(result) = 1
    /\ result[1]["race_name"] = StrV(<<"G", "o", "a">>)
    /\ result[1]["participant_count"] = StrV(<<"0">>)
    /\ result[1]["race_date"] = StrV(<<>>)

(***************************************************************************)
(* C11: a record whose race_date is empty or does not start with a year    *)
(* gets an empty year component (it has no 'year' field); so two such      *)
(* records with the same normalized name collide, and the later one goes   *)
(* to duplicates.                                                          *)
(***************************************************************************)
NoYear(e) == ~HasYearPrefix(e) /\ "year" \notin DOMAIN e

C11_UnparseableYearEmpty ==
    pc = "deduped" =>
        /\ \A i \in DOMAIN events :
               NoYear(events[i]) => DedupKey(events[i])[2] = <<>>
        /\ \A i, j \in DOMAIN events :
               (/\ i < j
                /\ NoYear(events[i]) /\ NoYear(events[j])
                /\ NormName(events[i]) = NormName(events[j])) =>
                   j \in Range(duplicates)

(***************************************************************************)
(* C12: every emitted record has exactly the eight canonical fields, each  *)
(* a string; a non-string source label is stored in timing_company as its  *)
(* string representation.                                                  *)
(***************************************************************************)
SchemaFields == {"race_name", "race_date", "city", "distances", "participant_count",
                 "event_id", "timing_company", "source_url"}

C12_EightStringFields ==
    pc = "normalized" =>
        \A i \in DOMAIN result :
            /\ DOMAIN result[i] = SchemaFields
            /\ \A f \in SchemaFields : result[i][f].t = "str"
            /\ result[i]["timing_company"] = StrV(PyStr(source))

(***************************************************************************)
(* C13: in every emitted record timing_company is the caller's source and  *)
(* source_url the caller's source_url, also for an item that has           *)
(* timing_company or source_url keys of its own.                           *)
(***************************************************************************)
C13_Provenance ==
    pc = "normalized" =>
        \A i \in DOMAIN result :
            /\ result[i]["timing_company"] = source
            /\ result[i]["source_url"] = source_url

\* a record made from an item that carries other provenance values itself
C13_Witness ==
    /\ pc = "normalized"
    /\ IsMappingList(raw)
    /\ Len(raw.l) = 1
    /\ Len(result) = 1
    /\ {"timing_company", "source_url"} \subseteq DOMAIN raw.l[1].d
    /\ raw.l[1].d["timing_company"] # source
    /\ raw.l[1].d["source_url"] # source_url

(***************************************************************************)
(* C14: a payload that is no sequence, no enveloped mapping and no         *)
(* single-item mapping (None, {}, a scalar) gives an empty result; entries *)
(* of the item list that are no mapping are skipped and the valid items    *)
(* around them are still emitted.                                          *)
(***************************************************************************)
UnrecognizedShape(r) ==
    /\ ~IsList(r)
    /\ IsDict(r) => /\ ListEnvelopes(r.d) = {}
                    /\ \A m \in DOMAIN SingleEventKeys : SingleEventKeys[m] \notin DOMAIN r.d

C14_ShapeTolerance ==
    pc = "normalized" =>
        /\ UnrecognizedShape(raw) => result = <<>>
        /\ IsList(raw) =>
               LET mappings == SelectSeq(raw.l, IsDict)
                   valid == SelectSeq(mappings, IsEvent)
               IN  /\ Len(result) = Len(valid)
                   /\ \A i \in DOMAIN result :
                          result[i] = NormalizeItem(valid[i], source, source_url)

\* a list whose first entry is no mapping and whose second entry is emitted
C14_Witness ==
    /\ pc = "normalized"
    /\ IsList(raw)
    /\ Len(raw.l) = 2
    /\ ~IsDict(raw.l[1])
    /\ Len(result) = 1

(***************************************************************************)
(* C15: normalize_events is idempotent on its output: the records it       *)
(* returned, passed back as a list or one at a time as a single mapping    *)
(* with the same source and source_url, come back with the same values in  *)
(* the eight canonical fields.                                             *)
(***************************************************************************)
C15_Idempotent ==
    pc = "normalized" =>
        /\ NormalizeEvents(ListV([i \in DOMAIN result |-> DictV(result[i])]),
                           source, source_url) = result
        /\ \A i \in DOMAIN result :
               NormalizeEvents(DictV(result[i]), source, source_url) = <<result[i]>>

\* a returned record with a date, a city or a distance to carry over
C15_Witness ==
    /\ pc = "normalized"
    /\ Len(result) = 2
    /\ result[1]["race_date"].s # <<>>
    /\ result[2]["race_date"].s # <<>>

(***************************************************************************)
(* C16: dedup_events only partitions: each record of unique and duplicates *)
(* has the field values of the input record it refers to, and the input    *)
(* list and its records are the same after the call as before.             *)
(***************************************************************************)
C16_NoMutation ==
    pc = "deduped" =>
        /\ records = events
        /\ \A i \in DOMAIN unique : records[unique[i]] = events[unique[i]]
        /\ \A i \in DOMAIN duplicates : records[duplicates[i]] = events[duplicates[i]]

\* a call that returned records in both lists
C16_Witness ==
    pc = "deduped" /\ Len(events) = 3 /\ Len(unique) >= 1 /\ Len(duplicates) >= 1

(***************************************************************************)
(* C17: the enveloped example payload with source "STS" and source_url     *)
(* "https://x/y" gives exactly one record: race_name "Goa River Marathon", *)
(* race_date "2024-09-01", participant_count "1500", city, distances and   *)
(* event_id empty, timing_company "STS", source_url "https://x/y".         *)
(***************************************************************************)
ExampleRecord ==
    [f \in SchemaFields |->
        CASE f = "race_name"         -> StrV(sGoaRiver)
          [] f = "race_date"         -> StrV(sSept)
          [] f = "city"              -> StrV(<<>>)
          [] f = "distances"         -> StrV(<<>>)
          [] f = "participant_count" -> StrV(<<"1", "5", "0", "0">>)
          [] f = "event_id"          -> StrV(<<>>)
          [] f = "timing_company"    -> StrV(<<"S", "T", "S">>)
          [] f = "source_url"        -> StrV(sExampleUrl)]

IsExampleCall ==
    /\ pc = "normalized"
    /\ raw = ExamplePayload
    /\ source = StrV(<<"S", "T", "S">>)
    /\ source_url = StrV(sExampleUrl)

C17_EndToEndExample == IsExampleCall => result = <<ExampleRecord>>

\* the example call has returned
C17_Witness == IsExampleCall /\ Len(result) = 1

(***************************************************************************)
(* C18: the normalize_events of normalizer.py and the one inlined in       *)
(* race_registry_scraper.py differ only in envelope keys and distances     *)
(* aliases: for a payload without a top-level 'Data' key whose items have  *)
(* no 'events' key, both return the same list of records.                  *)
(***************************************************************************)
NoDataNoEventsKey(r) ==
    /\ IsDict(r) => "Data" \notin DOMAIN r.d
    /\ \A i \in DOMAIN ExtractItems(r) :
           IsDict(ExtractItems(r)[i]) => "events" \notin DOMAIN ExtractItems(r)[i].d
    /\ \A i \in DOMAIN ScraperExtractItems(r) :
           IsDict(ScraperExtractItems(r)[i]) =>
               "events" \notin DOMAIN ScraperExtractItems(r)[i].d

C18_SameAsInlinedCopy ==
    (pc = "normalized" /\ NoDataNoEventsKey(raw)) =>
        result = ScraperNormalizeEvents(raw, source, source_url)

(***************************************************************************)
(* C19: scrape_playwright loses no captured response: every entry that     *)
(* on_response appended to event_buffer, whenever its body read completed, *)
(* was passed to normalize_events, so its records are in all_events when   *)
(* the call returns.                                                       *)
(***************************************************************************)
C19_NoCapturedResponseLost ==
    pc = "scraped" =>
        \A i \in DOMAIN event_buffer :
            LET evs == ScraperNormalizeEvents(event_buffer[i].body, source,
                                              event_buffer[i].url)
            IN  \A j \in DOMAIN evs : evs[j] \in Range(all_events)

(***************************************************************************)
(* C20: the within-site dedup of scrape_playwright drops a record only if  *)
(* an earlier record of the site has the same dedup key as dedup_events    *)
(* computes it (normalized name and year), so two editions of a race in    *)
(* different years both survive.                                           *)
(***************************************************************************)
C20_SiteDedupKeepsOtherYears ==
    pc = "scraped" =>
        \A i \in DOMAIN all_events :
            i \notin Range(unique) =>
                \E j \in 1..(i - 1) : DedupKey(all_events[j]) = DedupKey(all_events[i])

(***************************************************************************)
(* C21: the dedup key ignores the amount of whitespace between words: two  *)
(* records whose race names differ only in the length of runs of internal  *)
(* spaces (one space against two, three or more) get the same key name,    *)
(* and with equal year the later one goes to duplicates.                   *)
(***************************************************************************)
\* s with every run of spaces shortened to one space
RECURSIVE SquashSpaces(_)
SquashSpaces(s) ==
    IF Len(s) < 2 THEN s
    ELSE IF s[1] = " " /\ s[2] = " "
         THEN SquashSpaces(Tail(s))
         ELSE <<s[1]>> \o SquashSpaces(Tail(s))

\* race names equal up to the length of their runs of internal spaces
SameNameButSpacing(a, b) ==
    /\ Strip(RaceName(a)) = RaceName(a)
    /\ Strip(RaceName(b)) = RaceName(b)
    /\ SquashSpaces(RaceName(a)) = SquashSpaces(RaceName(b))

C21_InternalWhitespaceIgnored ==
    pc = "deduped" =>
        \A i, j \in DOMAIN events :
            (i < j /\ SameNameButSpacing(events[i], events[j])) =>
                /\ DedupKey(events[i])[1] = DedupKey(events[j])[1]
                /\ (DedupKey(events[i])[2] = DedupKey(events[j])[2]
                        => j \in Range(duplicates))

(***************************************************************************)
(* C22: dedup_events is idempotent on its unique output: with              *)
(* (U, D) = dedup_events(R), dedup_events(U) returns (U, []), U in the     *)
(* same order.                                                             *)
(***************************************************************************)
\* the list U that dedup_events returned first
UniqueRecords == [i \in DOMAIN unique |-> events[unique[i]]]

C22_IdempotentOnUnique ==
    pc = "deduped" =>
        DedupEvents(UniqueRecords) =
            [unique |-> [i \in DOMAIN unique |-> i], duplicates |-> <<>>]

\* a call that dropped two duplicates of one key, with its unique list
\* deduplicated again
C22_Witness ==
    /\ pc = "deduped"
    /\ Len(unique) >= 1
    /\ Len(duplicates) >= 2
    /\ DedupKey(events[duplicates[1]]) = DedupKey(events[duplicates[2]])
    /\ DedupEvents(UniqueRecords).unique = [i \in DOMAIN unique |-> i]

====
